---- MODULE Spec2Model ----
(***************************************************************************)
(* Model of the Genesys Cloud provider's station data source and architect *)
(* datatable resource:                                                     *)
(*   src/genesyscloud/data_source_genesyscloud_station.go                  *)
(*   src/genesyscloud/resource_genesyscloud_architect_datatable.go         *)
(*                                                                         *)
(* Part 1 models the schema <-> payload mapping (buildSdkDatatable-        *)
(* Properties, flattenDatatableProperties and the strconv conversions it   *)
(* calls).  Part 2 models the CRUD handlers and their retry loops.         *)
(*                                                                         *)
(* Go strings that are only compared are TLA+ strings.  The text of a      *)
(* property's "default" is parsed, so it is a sequence of one-character    *)
(* strings.  A Go pointer (or an optional map key) is a sequence of length *)
(* 0 (nil / absent) or 1 (the value).                                      *)
(***************************************************************************)
EXTENDS Integers, Sequences, FiniteSets, TLC

VARIABLES
    \* ---- part 1: the mapping -------------------------------------------
    phase,        \* "config" | "built" | "remote" | "flattened" | "off"
    properties,   \* d.Get("properties"): [isNil, items]
    built,        \* result of buildSdkDatatableProperties: [err, props]
    sdkMap,       \* the map[string]Datatableproperty handed to flatten
    configProps,  \* result of flattenDatatableProperties
    \* ---- part 2: the handlers ------------------------------------------
    pc,           \* position of the running handler
    handler,      \* which handler is running
    d,            \* the datatable's schema.ResourceData
    dEntry,       \* d as it was when the handler was invoked
    station,      \* the station data source's ResourceData: [name, id]
    reqs,         \* requests issued by the running handler, in order
    clock,        \* seconds since the running retry loop started
    outcome,      \* what the handler returned
    calls         \* handler invocations so far

mapVars == <<phase, properties, built, sdkMap, configProps>>
handlerVars == <<pc, handler, d, dEntry, station, reqs, clock, outcome, calls>>
vars == <<phase, properties, built, sdkMap, configProps,
          pc, handler, d, dEntry, station, reqs, clock, outcome, calls>>

None == <<>>
Some(v) == <<v>>

(***************************************************************************)
(* Bounds of the model.                                                    *)
(***************************************************************************)
MaxProps == 3       \* longest configured "properties" list (round trip)
MaxConvProps == 2   \* longest configured list in the conversion runs
MaxOrder == 1       \* largest displayOrder a remote property carries
MaxCalls == 2       \* handler invocations in one run

(***************************************************************************)
(* strconv: the conversions buildSdkDatatableProperties applies to the     *)
(* text of "default" (lines 313-324).                                      *)
(***************************************************************************)
DigitChars == <<"0", "1", "2", "3", "4", "5", "6", "7", "8", "9">>
DigitSet == {DigitChars[i] : i \in 1..10}
DigitVal(c) == (CHOOSE i \in 1..10 : DigitChars[i] = c) - 1

IsDigits(cs) == Len(cs) > 0 /\ \A i \in 1..Len(cs) : cs[i] \in DigitSet

RECURSIVE DecVal(_)
DecVal(cs) ==
    IF cs = <<>> THEN 0
    ELSE 10 * DecVal(SubSeq(cs, 1, Len(cs) - 1)) + DigitVal(cs[Len(cs)])

IndexOf(cs, set) ==
    IF \E i \in 1..Len(cs) : cs[i] \in set
    THEN CHOOSE i \in 1..Len(cs) : cs[i] \in set /\ \A j \in 1..(i - 1) : cs[j] \notin set
    ELSE 0

HasSign(cs) == Len(cs) > 0 /\ cs[1] \in {"+", "-"}
Unsigned(cs) == IF HasSign(cs) THEN Tail(cs) ELSE cs
SignOf(cs) == IF Len(cs) > 0 /\ cs[1] = "-" THEN -1 ELSE 1

\* strconv.ParseBool: a switch over twelve literals.
BoolTrueTexts ==
    { <<"1">>, <<"t">>, <<"T">>, <<"t", "r", "u", "e">>,
      <<"T", "R", "U", "E">>, <<"T", "r", "u", "e">> }
BoolFalseTexts ==
    { <<"0">>, <<"f">>, <<"F">>, <<"f", "a", "l", "s", "e">>,
      <<"F", "A", "L", "S", "E">>, <<"F", "a", "l", "s", "e">> }
ParseBool(cs) ==
    IF cs \in BoolTrueTexts THEN [ok |-> TRUE, v |-> TRUE]
    ELSE IF cs \in BoolFalseTexts THEN [ok |-> TRUE, v |-> FALSE]
    ELSE [ok |-> FALSE, v |-> FALSE]

\* strconv.Atoi: an optional sign, then one or more decimal digits.  The
\* texts of the model are a few characters long, so the range error of a
\* 64-bit int is out of reach.
Atoi(cs) ==
    IF IsDigits(Unsigned(cs))
    THEN [ok |-> TRUE, v |-> SignOf(cs) * DecVal(Unsigned(cs))]
    ELSE [ok |-> FALSE, v |-> 0]

\* Splitting a text at the first character of a set: [found, head, tail].
SplitAt(cs, pos) ==
    [found |-> pos # 0,
     head |-> IF pos = 0 THEN cs ELSE SubSeq(cs, 1, pos - 1),
     tail |-> IF pos = 0 THEN <<>> ELSE SubSeq(cs, pos + 1, Len(cs))]

Cut(cs, set) == SplitAt(cs, IndexOf(cs, set))

AllDigits(cs) == \A i \in 1..Len(cs) : cs[i] \in DigitSet

\* strconv.ParseFloat(s, 64) on decimal texts: [sign] digits [. digits]
\* [e|E [sign] digits], with at least one mantissa digit.  The value is
\* m * 10^e.  (The hexadecimal, underscore, "inf" and "nan" spellings need
\* characters the texts of the model do not contain.)
\* sign: -1 or 1; mant: the mantissa cut at "."; exp: the text cut at "e".
FloatOfParts(sign, mant, exp) ==
    IF /\ Len(mant.head) + Len(mant.tail) > 0
       /\ AllDigits(mant.head) /\ AllDigits(mant.tail)
       /\ exp.found => IsDigits(Unsigned(exp.tail))
    THEN [ok |-> TRUE,
          m |-> sign * DecVal(mant.head \o mant.tail),
          e |-> (IF exp.found THEN SignOf(exp.tail) * DecVal(Unsigned(exp.tail)) ELSE 0)
                    - Len(mant.tail)]
    ELSE [ok |-> FALSE, m |-> 0, e |-> 0]

FloatOfExp(sign, exp) == FloatOfParts(sign, Cut(exp.head, {"."}), exp)

ParseFloat(cs) == FloatOfExp(SignOf(cs), Cut(Unsigned(cs), {"e", "E"}))

\* A Go interface{} holding the converted default.
BoolVal(b)     == [kind |-> "bool",   b |-> b,     n |-> 0, e |-> 0, s |-> <<>>]
IntVal(n)      == [kind |-> "int",    b |-> FALSE, n |-> n, e |-> 0, s |-> <<>>]
FloatVal(m, e) == [kind |-> "float",  b |-> FALSE, n |-> m, e |-> e, s |-> <<>>]
StringVal(s)   == [kind |-> "string", b |-> FALSE, n |-> 0, e |-> 0, s |-> s]

\* defaultVal and err after a conversion: [status, val], status "ok",
\* "parse" (err != nil, line 325) or "type" (the default branch, line 323).
Converted(ok, val) == [status |-> IF ok THEN "ok" ELSE "parse", val |-> Some(val)]
BoolDefault(r) == Converted(r.ok, BoolVal(r.v))
IntDefault(r) == Converted(r.ok, IntVal(r.v))
FloatDefault(r) == Converted(r.ok, FloatVal(r.m, r.e))

\* ConvertDefault with "integer" converted by ParseFloat instead of Atoi.
ConvertDefaultIntAsFloat(propType, def) ==
    CASE propType = "boolean" -> BoolDefault(ParseBool(def))
      [] propType = "string" -> Converted(TRUE, StringVal(def))
      [] propType = "integer" -> FloatDefault(ParseFloat(def))
      [] propType = "number" -> FloatDefault(ParseFloat(def))
      [] OTHER -> [status |-> "type", val |-> None]

\* The switch of lines 313-324.
ConvertDefault(propType, def) ==
    CASE propType = "boolean" -> BoolDefault(ParseBool(def))
      [] propType = "string" -> Converted(TRUE, StringVal(def))
      [] propType = "integer" -> IntDefault(Atoi(def))
      [] propType = "number" -> FloatDefault(ParseFloat(def))
      [] OTHER -> [status |-> "type", val |-> None]

(***************************************************************************)
(* buildSdkDatatableProperties (lines 281-338).  A configured property is  *)
(* [name, type, title, default]; title and default are optional map keys.  *)
(* The result is [err, props]: err is the returned diagnostics being       *)
(* non-nil, props the returned *map (None for nil).                        *)
(***************************************************************************)
propIdPrefix == "/properties/"

\* Lines 307-328: defaultVal stays nil unless the key is there and its text
\* is not empty.
DefaultOf(property) ==
    IF property.default # None /\ property.default[1] # <<>>
    THEN ConvertDefault(property.type, property.default[1])
    ELSE [status |-> "ok", val |-> None]

\* Lines 294-304 and 329-331: the Datatableproperty of one configured
\* property, conv being its converted default.
SdkProp(orderNum, property, conv) ==
    [status |-> conv.status,
     prop |-> [Id |-> propIdPrefix \o property.name,
               DisplayOrder |-> Some(orderNum),
               VarType |-> Some(property.type),
               Title |-> property.title,
               Default |-> IF conv.status = "ok" THEN conv.val ELSE None]]

\* BuildProp with orderNum left at 0 instead of the loop index.
BuildPropOrderZero(i, property) == SdkProp(0, property, DefaultOf(property))

\* One pass of the loop body (lines 286-333), i being the loop index.
BuildProp(i, property) == SdkProp(i, property, DefaultOf(property))

RECURSIVE BuildLoop(_, _, _)
\* The end of a pass: return on an error (lines 323, 326), else store the
\* property under its name (line 333) and go on.
BuildNext(items, i, sdkProps, r) ==
    IF r.status # "ok" THEN [err |-> TRUE, props |-> None]
    ELSE BuildLoop(items, i + 1, (items[i].name :> r.prop) @@ sdkProps)

\* The loop of line 285 from its i-th pass on (i counts from 1 here).
BuildLoop(items, i, sdkProps) ==
    IF i > Len(items) THEN [err |-> FALSE, props |-> Some(sdkProps)]
    ELSE BuildNext(items, i, sdkProps, BuildProp(i - 1, items[i]))

buildSdkDatatableProperties(props) ==
    IF props.isNil THEN [err |-> FALSE, props |-> None]
    ELSE BuildLoop(props.items, 1, <<>>)

(***************************************************************************)
(* flattenDatatableProperties (lines 340-379).  Go ranges over a map in an *)
(* unspecified order: iterOrder is the order this call met the keys in.    *)
(***************************************************************************)
OrderOf(v) == IF v.DisplayOrder = None THEN 0 ELSE v.DisplayOrder[1]

\* sort.SliceStable with the comparison of line 360: an element goes behind
\* every element that is not greater than it.
RECURSIVE InsertStable(_, _)
InsertStable(sorted, kv) ==
    IF sorted = <<>> THEN <<kv>>
    ELSE IF OrderOf(kv.Value) < OrderOf(sorted[Len(sorted)].Value)
         THEN Append(InsertStable(SubSeq(sorted, 1, Len(sorted) - 1), kv),
                     sorted[Len(sorted)])
         ELSE Append(sorted, kv)

\* SortStable that leaves the list as the map iteration produced it.
SortStableMissing(propList) == propList

RECURSIVE SortStable(_)
SortStable(propList) ==
    IF propList = <<>> THEN <<>>
    ELSE InsertStable(SortStable(SubSeq(propList, 1, Len(propList) - 1)),
                      propList[Len(propList)])

\* Decimal digits of a natural number.
RECURSIVE NatText(_)
NatText(n) ==
    IF n < 10 THEN <<DigitChars[n + 1]>>
    ELSE Append(NatText(n \div 10), DigitChars[(n % 10) + 1])

IntText(n) == IF n < 0 THEN <<"-">> \o NatText(-n) ELSE NatText(n)

RECURSIVE Zeros(_)
Zeros(k) == IF k <= 0 THEN <<>> ELSE Append(Zeros(k - 1), "0")

RECURSIVE StripZeros(_, _)
StripZeros(m, e) ==
    IF m # 0 /\ m % 10 = 0 THEN StripZeros(m \div 10, e + 1) ELSE [m |-> m, e |-> e]

\* Digits ds with the decimal point e places from their right end.
PlaceDigits(sign, ds, e) ==
    IF e >= 0 THEN sign \o ds \o Zeros(e)
    ELSE IF Len(ds) > -e
         THEN sign \o SubSeq(ds, 1, Len(ds) + e) \o <<".">>
                   \o SubSeq(ds, Len(ds) + e + 1, Len(ds))
         ELSE sign \o <<"0", ".">> \o Zeros(-e - Len(ds)) \o ds

FloatDigits(z) ==
    PlaceDigits(IF z.m < 0 THEN <<"-">> ELSE <<>>,
                NatText(IF z.m < 0 THEN -z.m ELSE z.m), z.e)

\* The %v form of a float64 m * 10^e, in the plain decimal notation Go
\* uses for exponents between -4 and 20.
FloatText(m, e) ==
    FloatDigits(IF m = 0 THEN [m |-> 0, e |-> 0] ELSE StripZeros(m, e))

\* interfaceToString: the text form of an interface{} value.
interfaceToString(val) ==
    CASE val.kind = "bool" ->
            IF val.b THEN <<"t", "r", "u", "e">> ELSE <<"f", "a", "l", "s", "e">>
      [] val.kind = "int" -> IntText(val.n)
      [] val.kind = "float" -> FloatText(val.n, val.e)
      [] OTHER -> val.s

\* Lines 363-377: one configuration entry per sorted key.
FlattenEntry(propKV) ==
    [name |-> propKV.Key,
     type |-> propKV.Value.VarType,
     title |-> propKV.Value.Title,
     default |-> IF propKV.Value.Default = None THEN None
                 ELSE Some(interfaceToString(propKV.Value.Default[1]))]

flattenDatatableProperties(propMap, iterOrder) ==
    LET propList == [i \in 1..Len(iterOrder) |->
                        [Key |-> iterOrder[i], Value |-> propMap[iterOrder[i]]]]
        sorted == SortStable(propList)
    IN [i \in 1..Len(sorted) |-> FlattenEntry(sorted[i])]

\* The orders a range over a map with these keys can take.
IterOrders(keys) ==
    {o \in [1..Cardinality(keys) -> keys] :
        \A i, j \in 1..Cardinality(keys) : i # j => o[i] # o[j]}

(***************************************************************************)
(* Part 1 as a state machine: the configuration is drawn in Init, Build    *)
(* applies buildSdkDatatableProperties to it, Flatten applies              *)
(* flattenDatatableProperties to the property map at hand.                 *)
(***************************************************************************)
NoBuild == [err |-> FALSE, props |-> None]
NilProperties == [isNil |-> TRUE, items |-> <<>>]

ListsOf(S, n) == UNION {[1..k -> S] : k \in 0..n}

\* Configurations of the round-trip runs.
TripProps ==
    [name : {"key", "a", "b"}, type : {"string", "integer"},
     title : {Some(""), Some("T")}, default : {Some(<<>>), Some(<<"x">>)}]

\* Configurations of the conversion runs: every declared type and one the
\* schema does not know, and texts that parse as some types and not others.
DefaultTexts ==
    { <<>>, <<"1">>, <<"t">>, <<"-", "3">>, <<"1", ".", "5">>, <<"2", "e", "1">>,
      <<"x">> }
ConvProps ==
    [name : {"key", "a"},
     type : {"boolean", "string", "integer", "number", "datetime"},
     title : {None}, default : {None} \cup {Some(t) : t \in DefaultTexts}]

\* Property maps the remote API can answer with.
RemoteProps ==
    [Id : {"/properties/x"}, VarType : {None, Some("string")}, Title : {None},
     Default : {None, Some(BoolVal(TRUE))},
     DisplayOrder : {None} \cup {Some(o) : o \in -1..MaxOrder}]
RemoteMaps == UNION {[keys -> RemoteProps] : keys \in SUBSET {"key", "a", "b"}}

BlankData ==
    [id |-> "", name |-> "", division_id |-> "", description |-> "",
     properties |-> <<>>]

HandlersOff ==
    /\ pc = "off" /\ handler = "none" /\ d = BlankData /\ dEntry = BlankData
    /\ station = [name |-> "", id |-> ""] /\ reqs = <<>> /\ clock = 0 /\ outcome = "none"
    /\ calls = 0

InitConfig(lists) ==
    /\ phase = "config"
    /\ properties \in {NilProperties} \cup {[isNil |-> FALSE, items |-> l] : l \in lists}
    /\ built = NoBuild
    /\ sdkMap = <<>>
    /\ configProps = <<>>
    /\ HandlersOff

InitTrip == InitConfig(ListsOf(TripProps, MaxProps))
InitConv == InitConfig(ListsOf(ConvProps, MaxConvProps))

InitFlat ==
    /\ phase = "remote"
    /\ properties = NilProperties
    /\ built = NoBuild
    /\ sdkMap \in RemoteMaps
    /\ configProps = <<>>
    /\ HandlersOff

Build ==
    /\ phase = "config"
    /\ built' = buildSdkDatatableProperties(properties)
    /\ sdkMap' = IF built'.props = None THEN sdkMap ELSE built'.props[1]
    /\ phase' = "built"
    /\ UNCHANGED <<properties, configProps>>
    /\ UNCHANGED handlerVars

Flatten ==
    /\ \/ phase = "remote"
       \/ phase = "built" /\ built.props # None
    /\ \E iterOrder \in IterOrders(DOMAIN sdkMap) :
          configProps' = flattenDatatableProperties(sdkMap, iterOrder)
    /\ phase' = "flattened"
    /\ UNCHANGED <<properties, built, sdkMap>>
    /\ UNCHANGED handlerVars

NextMap == Build \/ Flatten

SpecTrip == InitTrip /\ [][NextMap]_vars
SpecConv == InitConv /\ [][NextMap]_vars
SpecFlat == InitFlat /\ [][Flatten]_vars

(***************************************************************************)
(* Part 2: the handlers.  One handler runs at a time (the provider SDK     *)
(* calls them synchronously).  A step of a handler is one request with its *)
(* answer and everything the code does with the answer up to the next      *)
(* request or the return.  A nil-pointer dereference is a Go panic: the     *)
(* handler does not return and the plugin process is gone (pc "crashed").  *)
(***************************************************************************)
StationTimeout == 15   \* seconds, data_source_genesyscloud_station.go:33
ReadTimeout == 30      \* seconds, resource_genesyscloud_architect_datatable.go:164
DeleteTimeout == 30    \* seconds, resource_genesyscloud_architect_datatable.go:245

\* Seconds one attempt of a retry loop takes, the wait behind it included.
AttemptSeconds == {5, 10}

\* ---- what the remote API can answer ------------------------------------
\* An answer is [status, err, reply]: err is the SDK call's error being
\* non-nil (no response at all: status 0; an API error status; or a body
\* that does not unmarshal), reply the decoded payload.
Failures ==
    { [status |-> 0,   err |-> TRUE, reply |-> None],
      [status |-> 404, err |-> TRUE, reply |-> None],
      [status |-> 500, err |-> TRUE, reply |-> None],
      [status |-> 200, err |-> TRUE, reply |-> None] }

Ok(payload) == [status |-> 200, err |-> FALSE, reply |-> payload]

KeyProperty ==
    [Id |-> "/properties/key", VarType |-> Some("string"), Title |-> Some("Key"),
     Default |-> None, DisplayOrder |-> Some(0)]
FlagProperty ==
    [Id |-> "/properties/a", VarType |-> Some("boolean"), Title |-> None,
     Default |-> Some(BoolVal(TRUE)), DisplayOrder |-> None]

\* Datatable payloads: every pointer field of type Datatable (lines 398-404)
\* can be nil, and so can the payload (a "null" body).
RemoteTables ==
    { None,
      Some([Id |-> Some("dt1"), Name |-> Some("n2"), Division |-> Some("div2"),
            Description |-> None, Properties |-> None]),
      Some([Id |-> Some("dt2"), Name |-> Some("n1"), Division |-> Some("div1"),
            Description |-> Some("remote"),
            Properties |-> Some(("key" :> KeyProperty) @@ ("a" :> FlagProperty))]),
      Some([Id |-> None, Name |-> None, Division |-> Some("div1"),
            Description |-> None, Properties |-> None]),
      Some([Id |-> Some("dt1"), Name |-> Some("n1"), Division |-> None,
            Description |-> None, Properties |-> None]) }

TableResponses == Failures \cup {Ok(t) : t \in RemoteTables}

\* Stationentitylisting.Entities: nil, empty, or stations whose Id may be nil.
StationListings ==
    { None, Some(<<>>), Some(<<[Id |-> Some("s1")]>>),
      Some(<<[Id |-> Some("s2")], [Id |-> Some("s1")]>>),
      Some(<<[Id |-> None]>>) }

StationResponses == Failures \cup {Ok(l) : l \in StationListings}

DeleteResponses == Failures \cup {Ok(None)}

\* ---- the configuration the SDK hands to a handler -----------------------
KeyConfig ==
    [name |-> "key", type |-> "string", title |-> Some("Key"), default |-> Some(<<>>)]
CountConfig(text) ==
    [name |-> "count", type |-> "integer", title |-> Some(""), default |-> Some(text)]

HandlerProperties ==
    { <<KeyConfig>>, <<KeyConfig, CountConfig(<<"7">>)>>,
      <<KeyConfig, CountConfig(<<"x">>)>> }

ResourceData(ids) ==
    [id : ids, name : {"n1"}, division_id : {"", "div1"},
     description : {"", "local"}, properties : HandlerProperties]

\* ---- the retry wrapper ---------------------------------------------------
\* withRetries(ctx, timeout, method): call method until it returns nil or a
\* non-retryable error, or until the timeout has passed.  verdict is what
\* method returned, elapsed the time since the loop started.
withRetries(timeout, verdict, elapsed) ==
    CASE verdict = "nil" -> "ok"
      [] verdict = "nonretryable" -> "error"
      [] verdict = "panic" -> "panic"
      [] OTHER -> IF elapsed >= timeout THEN "timeout" ELSE "retry"

withRetriesForRead(timeout, verdict, elapsed) == withRetries(timeout, verdict, elapsed)

isStatus404(resp) == resp.status = 404

Min(a, b) == IF a < b THEN a ELSE b

\* Where a handler stands after a step of its retry loop.
PcAfter(result, loop) ==
    CASE result = "retry" -> loop
      [] result = "panic" -> "crashed"
      [] OTHER -> "idle"

OutcomeAfter(result) == IF result = "retry" THEN "running" ELSE result

\* An entry of reqs: the request, and what the handler took from the answer.
Request(api, method, arg, body, resp) ==
    [api |-> api, method |-> method, arg |-> arg, body |-> body,
     status |-> resp.status, err |-> resp.err, reply |-> resp.reply]

\* An answer whose payload the caller drops (the "_" of lines 223 and 246).
Dropped(resp) == [resp EXCEPT !.reply = None]

\* ---- buildSdkDatatableSchema (lines 259-279) ------------------------------
SchemaOf(r) ==
    IF r.err THEN [err |-> TRUE, schema |-> None]
    ELSE [err |-> FALSE,
          schema |-> Some([Schema |-> "http://json-schema.org/draft-04/schema#",
                           VarType |-> "object",
                           Required |-> <<"key">>,
                           Properties |-> r.props,
                           AdditionalProperties |-> FALSE])]

buildSdkDatatableSchema(data) ==
    SchemaOf(buildSdkDatatableProperties([isNil |-> FALSE, items |-> data.properties]))

\* The Datatable of lines 134-145 (create, no Id) and 209-221 (update).
DatatableBody(idOpt, data) ==
    [Id |-> idOpt,
     Name |-> Some(data.name),
     Schema |-> buildSdkDatatableSchema(data).schema,
     Division |-> IF data.division_id # "" THEN Some(data.division_id) ELSE None,
     Description |-> IF data.description # "" THEN Some(data.description) ELSE None]

\* sdkPutOrPostArchitectDatatable, lines 410-413: the datatable the path names.
WritePath(method, body) ==
    IF method = "PUT" /\ body.Id # None THEN body.Id[1] ELSE ""

(***************************************************************************)
(* Invocations.  The SDK hands each handler the ResourceData it works on:  *)
(* the planned configuration with no ID (create), the prior state (read,   *)
(* delete), the prior ID with the new configuration (update).              *)
(***************************************************************************)
Begin(h, start) ==
    /\ pc = "idle"
    /\ calls < MaxCalls
    /\ calls' = calls + 1
    /\ handler' = h
    /\ pc' = start
    /\ reqs' = <<>>
    /\ clock' = 0
    /\ outcome' = "running"
    /\ UNCHANGED mapVars

InvokeStationRead ==
    /\ Begin("station", "station_poll")
    /\ \E n \in {"st-a", "st-b"} : station' = [name |-> n, id |-> ""]
    /\ UNCHANGED <<d, dEntry>>

InvokeCreate ==
    /\ Begin("create", "create_build")
    /\ d' \in ResourceData({""})
    /\ dEntry' = d'
    /\ UNCHANGED station

InvokeRead ==
    /\ Begin("read", "read_poll")
    /\ d' \in ResourceData({"dt1"})
    /\ dEntry' = d'
    /\ UNCHANGED station

InvokeUpdate ==
    /\ Begin("update", "update_build")
    /\ d' \in ResourceData({"dt1"})
    /\ dEntry' = d'
    /\ UNCHANGED station

InvokeDelete ==
    /\ Begin("delete", "delete_request")
    /\ d' \in ResourceData({"dt1"})
    /\ dEntry' = d'
    /\ UNCHANGED station

Return(result) ==
    /\ pc' = (IF result = "panic" THEN "crashed" ELSE "idle")
    /\ outcome' = result

(***************************************************************************)
(* dataSourceStationRead (station file, lines 27-46).                      *)
(***************************************************************************)
\* StationVerdict with a request error handed back as retryable.
StationVerdictRetryErrors(resp) ==
    IF resp.err \/ resp.reply = None \/ Len(resp.reply[1]) = 0 THEN "retryable"
    ELSE IF resp.reply[1][1].Id = None THEN "panic"
    ELSE "nil"

\* The callback of lines 33-45: what it returns for an answer.
StationVerdict(resp) ==
    IF resp.err THEN "nonretryable"
    ELSE IF resp.reply = None \/ Len(resp.reply[1]) = 0 THEN "retryable"
    ELSE IF resp.reply[1][1].Id = None THEN "panic"
    ELSE "nil"

StationAttempt ==
    /\ pc = "station_poll"
    /\ \E resp \in StationResponses, dt \in AttemptSeconds :
          LET verdict == StationVerdict(resp)
              elapsed == Min(clock + dt, StationTimeout)
              result == withRetries(StationTimeout, verdict, elapsed)
          IN /\ reqs' = Append(reqs, Request("stations", "GET", station.name, None, resp))
             /\ clock' = elapsed
             /\ station' = IF verdict = "nil"
                           THEN [station EXCEPT !.id = resp.reply[1][1].Id[1]]
                           ELSE station
             /\ pc' = PcAfter(result, "station_poll")
             /\ outcome' = OutcomeAfter(result)
    /\ UNCHANGED <<handler, d, dEntry, calls>>
    /\ UNCHANGED mapVars

(***************************************************************************)
(* readArchitectDatatable (lines 158-191), also the tail of create and     *)
(* update.                                                                 *)
(***************************************************************************)
\* ReadVerdict with every failed GET handed back as retryable.
ReadVerdictRetryAll(resp) ==
    IF resp.err THEN "retryable"
    ELSE IF resp.reply = None \/ resp.reply[1].Name = None
            \/ resp.reply[1].Division = None
         THEN "panic"
         ELSE "nil"

\* The callback of lines 165-189: what it returns for an answer.
ReadVerdict(resp) ==
    IF resp.err
    THEN IF isStatus404(resp) THEN "retryable" ELSE "nonretryable"
    ELSE IF resp.reply = None \/ resp.reply[1].Name = None
            \/ resp.reply[1].Division = None
         THEN "panic"
         ELSE "nil"

\* Lines 172-185: the ResourceData after the callback, the map of the
\* answer being ranged over in iterOrder.  A nil Division panics after
\* "name" was set.
ReadInto(data, resp, iterOrder) ==
    IF resp.err \/ resp.reply = None \/ resp.reply[1].Name = None THEN data
    ELSE LET t == resp.reply[1]
         IN IF t.Division = None THEN [data EXCEPT !.name = t.Name[1]]
            ELSE [data EXCEPT
                    !.name = t.Name[1],
                    !.division_id = t.Division[1],
                    !.description = IF t.Description # None
                                    THEN t.Description[1] ELSE "",
                    !.properties = IF t.Properties # None
                                   THEN flattenDatatableProperties(t.Properties[1],
                                                                   iterOrder)
                                   ELSE <<>>]

PayloadKeys(resp) ==
    IF resp.err \/ resp.reply = None \/ resp.reply[1].Properties = None THEN {}
    ELSE DOMAIN resp.reply[1].Properties[1]

ReadAttempt ==
    /\ pc = "read_poll"
    /\ \E resp \in TableResponses, dt \in AttemptSeconds :
          LET verdict == ReadVerdict(resp)
              elapsed == Min(clock + dt, ReadTimeout)
              result == withRetriesForRead(ReadTimeout, verdict, elapsed)
          IN /\ reqs' = Append(reqs, Request("datatable", "GET", d.id, None, resp))
             /\ clock' = elapsed
             /\ \E iterOrder \in IterOrders(PayloadKeys(resp)) :
                   d' = ReadInto(d, resp, iterOrder)
             /\ pc' = PcAfter(result, "read_poll")
             /\ outcome' = OutcomeAfter(result)
    /\ UNCHANGED <<handler, dEntry, station, calls>>
    /\ UNCHANGED mapVars

(***************************************************************************)
(* createArchitectDatatable (lines 119-156).                               *)
(***************************************************************************)
CreateBuild ==
    /\ pc = "create_build"
    /\ IF buildSdkDatatableSchema(d).err
       THEN Return("error")
       ELSE pc' = "create_post" /\ UNCHANGED outcome
    /\ UNCHANGED <<handler, d, dEntry, station, reqs, clock, calls>>
    /\ UNCHANGED mapVars

\* Lines 147-155 for an answer of the POST: "error" (line 149), "panic"
\* (*table.Id of a nil table or a nil Id, line 152) or "read".
CreateVerdict(resp) ==
    IF resp.err THEN "error"
    ELSE IF resp.reply = None \/ resp.reply[1].Id = None THEN "panic"
    ELSE "read"

CreatePost ==
    /\ pc = "create_post"
    /\ \E resp \in TableResponses :
          LET body == DatatableBody(None, d)
              verdict == CreateVerdict(resp)
          IN /\ reqs' = Append(reqs, Request("datatable", "POST",
                                             WritePath("POST", body), Some(body), resp))
             /\ IF verdict = "read"
                THEN /\ d' = [d EXCEPT !.id = resp.reply[1].Id[1]]
                     /\ pc' = "read_poll"
                     /\ UNCHANGED outcome
                ELSE /\ d' = d
                     /\ Return(verdict)
    /\ clock' = 0
    /\ UNCHANGED <<handler, dEntry, station, calls>>
    /\ UNCHANGED mapVars

(***************************************************************************)
(* updateArchitectDatatable (lines 193-231).  The five seconds of sleep    *)
(* before the read (line 229) pass before the retry clock starts.          *)
(***************************************************************************)
UpdateBuild ==
    /\ pc = "update_build"
    /\ IF buildSdkDatatableSchema(d).err
       THEN Return("error")
       ELSE pc' = "update_put" /\ UNCHANGED outcome
    /\ UNCHANGED <<handler, d, dEntry, station, reqs, clock, calls>>
    /\ UNCHANGED mapVars

\* UpdateVerdict without the check of err (line 224).
UpdateVerdictIgnoreErr(resp) == "read"

\* Lines 223-230 for an answer of the PUT: the payload is not looked at.
UpdateVerdict(resp) == IF resp.err THEN "error" ELSE "read"

UpdatePut ==
    /\ pc = "update_put"
    /\ \E resp \in TableResponses :
          LET body == DatatableBody(Some(d.id), d)
              verdict == UpdateVerdict(resp)
          IN /\ reqs' = Append(reqs, Request("datatable", "PUT",
                                             WritePath("PUT", body), Some(body),
                                             Dropped(resp)))
             /\ IF verdict = "read"
                THEN pc' = "read_poll" /\ UNCHANGED outcome
                ELSE Return(verdict)
    /\ clock' = 0
    /\ UNCHANGED <<handler, d, dEntry, station, calls>>
    /\ UNCHANGED mapVars

(***************************************************************************)
(* deleteArchitectDatatable (lines 233-257).                               *)
(***************************************************************************)
DeleteRequest ==
    /\ pc = "delete_request"
    /\ \E resp \in DeleteResponses :
          /\ reqs' = Append(reqs, Request("datatable", "DELETE", d.id, None, resp))
          /\ IF resp.err
             THEN Return("error")
             ELSE pc' = "delete_poll" /\ UNCHANGED outcome
    /\ clock' = 0
    /\ UNCHANGED <<handler, d, dEntry, station, calls>>
    /\ UNCHANGED mapVars

\* DeleteVerdict without the check of the status (line 248).
DeleteVerdictAnyError(resp) == IF resp.err THEN "nil" ELSE "retryable"

\* The callback of lines 245-256: what it returns for an answer.
DeleteVerdict(resp) ==
    IF resp.err
    THEN IF isStatus404(resp) THEN "nil" ELSE "nonretryable"
    ELSE "retryable"

DeleteAttempt ==
    /\ pc = "delete_poll"
    /\ \E resp \in TableResponses, dt \in AttemptSeconds :
          LET verdict == DeleteVerdict(resp)
              elapsed == Min(clock + dt, DeleteTimeout)
              result == withRetries(DeleteTimeout, verdict, elapsed)
          IN /\ reqs' = Append(reqs, Request("datatable", "GET", d.id, None,
                                             Dropped(resp)))
             /\ clock' = elapsed
             /\ pc' = PcAfter(result, "delete_poll")
             /\ outcome' = OutcomeAfter(result)
    /\ UNCHANGED <<handler, d, dEntry, station, calls>>
    /\ UNCHANGED mapVars

MapOff ==
    /\ phase = "off" /\ properties = NilProperties /\ built = NoBuild
    /\ sdkMap = <<>> /\ configProps = <<>>

Init ==
    /\ MapOff
    /\ pc = "idle" /\ handler = "none" /\ outcome = "none"
    /\ d = BlankData /\ dEntry = BlankData
    /\ station = [name |-> "", id |-> ""]
    /\ reqs = <<>> /\ clock = 0 /\ calls = 0

Invoke ==
    \/ InvokeStationRead
    \/ InvokeCreate
    \/ InvokeRead
    \/ InvokeUpdate
    \/ InvokeDelete

Step ==
    \/ StationAttempt
    \/ ReadAttempt
    \/ CreateBuild
    \/ CreatePost
    \/ UpdateBuild
    \/ UpdatePut
    \/ DeleteRequest
    \/ DeleteAttempt

Next == Invoke \/ Step

Spec == Init /\ [][Next]_vars

\* A handler that has been called keeps running: its goroutine is scheduled
\* and every request is answered or fails.
FairSpec == Spec /\ WF_vars(Step)

(***************************************************************************)
(* Claims about the mapping.                                               *)
(***************************************************************************)
DistinctNames(items) ==
    \A i, j \in 1..Len(items) : i # j => items[i].name # items[j].name

\* The flattened list repeats the configured one: same length, and the
\* same name, type and title at every position.
SameProperties(flat, items) ==
    /\ Len(flat) = Len(items)
    /\ \A i \in 1..Len(items) :
          /\ flat[i].name = items[i].name
          /\ flat[i].type = Some(items[i].type)
          /\ flat[i].title = items[i].title

\* C1 as stated: for every configured list, flattening the built property
\* map gives back the list (length, and name, type, title per position).
C1_RoundTripEveryList ==
    (phase = "flattened" /\ built.props # None)
        => SameProperties(configProps, properties.items)

\* C1 amended: for every configured list whose property names are pairwise
\* distinct and whose build returns a property map, flattening that map
\* gives back the list, whatever order the map is ranged over in.
C1_RoundTripDistinctNames ==
    (phase = "flattened" /\ built.props # None /\ DistinctNames(properties.items))
        => SameProperties(configProps, properties.items)

C1_Witness ==
    /\ phase = "flattened" /\ built.props # None
    /\ Len(properties.items) = MaxProps
    /\ DistinctNames(properties.items)
    /\ properties.items[1].name = "b" /\ properties.items[2].name = "key"
    /\ properties.items[1].title # properties.items[2].title
    /\ configProps[1].name = "b"

\* "The text parses as the declared type", by the strconv function of that
\* type.
ParsesAs(propType, text) ==
    CASE propType = "boolean" -> ParseBool(text).ok
      [] propType = "string" -> TRUE
      [] propType = "integer" -> Atoi(text).ok
      [] propType = "number" -> ParseFloat(text).ok
      [] OTHER -> FALSE

KindOf(propType) ==
    CASE propType = "boolean" -> "bool"
      [] propType = "string" -> "string"
      [] propType = "integer" -> "int"
      [] OTHER -> "float"

HasDefaultText(property) == property.default # None /\ property.default[1] # <<>>

\* What C4 says the request carries for configured property i.
SendsConverted(items, i, sdkProps) ==
    LET sent == sdkProps[items[i].name].Default
    IN IF HasDefaultText(items[i])
       THEN /\ sent # None
            /\ sent[1].kind = KindOf(items[i].type)
            /\ items[i].type = "string" => sent[1].s = items[i].default[1]
       ELSE sent = None

Convertible(property) ==
    HasDefaultText(property) => ParsesAs(property.type, property.default[1])

\* C4 as stated: the build fails, with no map, exactly when some non-empty
\* default does not parse as its declared type (or the type is unknown), and
\* otherwise the request property of every configured property carries the
\* default converted to the declared type, or none for an empty default.
C4_DefaultConvertedEveryProperty ==
    (phase = "built" /\ ~properties.isNil) =>
        LET items == properties.items
        IN IF \A i \in 1..Len(items) : Convertible(items[i])
           THEN /\ ~built.err /\ built.props # None
                /\ \A i \in 1..Len(items) : SendsConverted(items, i, built.props[1])
           ELSE built.err /\ built.props = None

IsLastOfName(items, i) ==
    \A j \in (i + 1)..Len(items) : items[j].name # items[i].name

\* C4 amended: as stated, for every configured property whose name is not
\* repeated later in the list (a later property of the same name replaces
\* the request property of an earlier one).
C4_DefaultConvertedLastOfName ==
    (phase = "built" /\ ~properties.isNil) =>
        LET items == properties.items
        IN IF \A i \in 1..Len(items) : Convertible(items[i])
           THEN /\ ~built.err /\ built.props # None
                /\ \A i \in 1..Len(items) :
                      IsLastOfName(items, i) => SendsConverted(items, i, built.props[1])
           ELSE built.err /\ built.props = None

C4_Witness ==
    /\ phase = "built" /\ ~built.err /\ built.props # None
    /\ Len(properties.items) = 2
    /\ properties.items[1] = [name |-> "key", type |-> "integer", title |-> None,
                               default |-> Some(<<"-", "3">>)]
    /\ properties.items[2].type = "number"
    /\ properties.items[2].default = Some(<<"1", ".", "5">>)
    /\ built.props[1]["key"].Default = Some(IntVal(-3))
    /\ built.props[1]["a"].Default = Some(FloatVal(15, -1))

\* C8: the flattened list has exactly one entry per key of the property
\* map, named after the key, in non-decreasing display order (no display
\* order counting as 0).
C8_FlattenOnePerKeySorted ==
    phase = "flattened" =>
        /\ Len(configProps) = Cardinality(DOMAIN sdkMap)
        /\ {configProps[i].name : i \in 1..Len(configProps)} = DOMAIN sdkMap
        /\ \A i, j \in 1..Len(configProps) :
              i < j => OrderOf(sdkMap[configProps[i].name])
                          <= OrderOf(sdkMap[configProps[j].name])

C8_Witness ==
    /\ phase = "flattened"
    /\ DOMAIN sdkMap = {"key", "a", "b"}
    /\ sdkMap["key"].DisplayOrder = None
    /\ sdkMap["a"].DisplayOrder = Some(-1)
    /\ sdkMap["b"].DisplayOrder = Some(MaxOrder)
    /\ configProps[1].name = "a" /\ configProps[3].name = "b"

(***************************************************************************)
(* Claims about the handlers.                                              *)
(***************************************************************************)
LastReq == reqs[Len(reqs)]

Attributes(data) ==
    <<data.name, data.division_id, data.description, data.properties>>

\* C2: in readArchitectDatatable (on its own, or as the tail of create and
\* update) a failed GET with a status other than 404 is the last request:
\* the handler has returned the error and name, division_id, description and
\* properties are as they were; a failed GET with status 404 is handed back
\* to the retry loop: another GET follows it, or the loop is about to issue
\* one, or the 30 s have passed and the handler has returned the timeout.
C2_ReadRetriesOnly404 ==
    handler \in {"read", "create", "update"} =>
        \A i \in 1..Len(reqs) :
            (reqs[i].method = "GET" /\ reqs[i].err) =>
                IF reqs[i].status = 404
                THEN \/ i < Len(reqs) /\ reqs[i + 1].method = "GET"
                     \/ i = Len(reqs) /\ pc = "read_poll" /\ clock < ReadTimeout
                     \/ i = Len(reqs) /\ pc = "idle" /\ outcome = "timeout"
                            /\ clock >= ReadTimeout
                ELSE /\ i = Len(reqs)
                     /\ pc = "idle" /\ outcome = "error"
                     /\ Attributes(d) = Attributes(dEntry)

C2_Witness ==
    /\ handler = "read" /\ pc = "idle" /\ outcome = "error"
    /\ Len(reqs) = 3
    /\ reqs[1].status = 404 /\ reqs[2].status = 404 /\ reqs[3].status = 500
    /\ Attributes(d) = Attributes(dEntry)

PollingHandlers == {"station", "read", "delete"}

\* C3: every invocation of dataSourceStationRead, readArchitectDatatable and
\* deleteArchitectDatatable eventually returns: with success, with a
\* non-retryable error, or because its retry deadline has passed.
C3_EveryInvocationReturns ==
    (handler \in PollingHandlers /\ outcome = "running")
        ~> (pc = "idle" /\ outcome \in {"ok", "error", "timeout"})

\* What does hold: an invocation ends, by a return or by a panic; no retry
\* loop runs forever.
C3_EveryInvocationEnds ==
    (handler \in PollingHandlers /\ outcome = "running")
        ~> (outcome \in {"ok", "error", "timeout", "panic"})

\* C5: every request of dataSourceStationRead asks for the configured name;
\* it returns success only after an answer with a non-empty entity list, the
\* resource ID being the ID of that list's first entity; an empty or missing
\* list is handed back to the retry loop; a request error is the last
\* request and ends the lookup with an error; and unless the lookup
\* succeeded the resource ID is unset.
C5_StationSelectedByName ==
    handler = "station" =>
        /\ \A i \in 1..Len(reqs) :
              /\ reqs[i].api = "stations" /\ reqs[i].arg = station.name
              /\ reqs[i].err =>
                    i = Len(reqs) /\ pc = "idle" /\ outcome = "error"
              /\ (~reqs[i].err /\ (reqs[i].reply = None \/ reqs[i].reply[1] = <<>>)) =>
                    \/ i < Len(reqs)
                    \/ pc = "station_poll" /\ clock < StationTimeout
                    \/ pc = "idle" /\ outcome = "timeout" /\ clock >= StationTimeout
        /\ outcome = "ok" =>
              /\ Len(reqs) > 0 /\ ~LastReq.err
              /\ LastReq.reply # None /\ Len(LastReq.reply[1]) > 0
              /\ station.id = LastReq.reply[1][1].Id[1]
        /\ outcome # "ok" => station.id = ""

C5_Witness ==
    /\ handler = "station" /\ pc = "idle" /\ outcome = "ok"
    /\ Len(reqs) = 3
    /\ reqs[1].reply = None /\ reqs[2].reply = Some(<<>>)
    /\ Len(reqs[3].reply[1]) = 2
    /\ station.id = "s2"

\* C6: deleteArchitectDatatable issues one DELETE, first, and GETs of the
\* same datatable only after the DELETE succeeded; a failed DELETE ends it
\* with an error; it reports success only when the last GET answered 404; a
\* GET that succeeds is handed back to the retry loop; a GET failure with
\* another status is the last request and ends it with an error.
C6_DeleteSuccessOnlyAfter404 ==
    handler = "delete" =>
        /\ \A i \in 1..Len(reqs) :
              /\ reqs[i].arg = dEntry.id
              /\ reqs[i].method = (IF i = 1 THEN "DELETE" ELSE "GET")
              /\ i > 1 => ~reqs[1].err
              /\ (i > 1 /\ ~reqs[i].err) =>
                    \/ i < Len(reqs)
                    \/ pc = "delete_poll" /\ clock < DeleteTimeout
                    \/ pc = "idle" /\ outcome = "timeout" /\ clock >= DeleteTimeout
              /\ (i > 1 /\ reqs[i].err /\ reqs[i].status # 404) =>
                    i = Len(reqs) /\ pc = "idle" /\ outcome = "error"
        /\ (Len(reqs) > 0 /\ reqs[1].err) =>
              Len(reqs) = 1 /\ pc = "idle" /\ outcome = "error"
        /\ outcome = "ok" =>
              /\ Len(reqs) > 1 /\ ~reqs[1].err
              /\ LastReq.method = "GET" /\ LastReq.err /\ LastReq.status = 404

C6_Witness ==
    /\ handler = "delete" /\ pc = "idle" /\ outcome = "ok"
    /\ Len(reqs) = 4
    /\ ~reqs[1].err /\ ~reqs[2].err /\ ~reqs[3].err
    /\ reqs[4].status = 404

\* C7: createArchitectDatatable and updateArchitectDatatable issue at most
\* one write, as their first request (POST to the collection, PUT to the
\* resource's own ID), and GETs only after that write succeeded; when the
\* schema does not build no request is sent; a failed write is the only
\* request and ends the handler with an error; in create the resource ID is
\* unset until the POST succeeded and then is the ID the POST returned.
C7_WriteThenRead ==
    handler \in {"create", "update"} =>
        /\ \A i \in 1..Len(reqs) :
              IF i = 1
              THEN /\ reqs[1].method = (IF handler = "create" THEN "POST" ELSE "PUT")
                   /\ reqs[1].arg = (IF handler = "create" THEN "" ELSE dEntry.id)
              ELSE /\ reqs[i].method = "GET"
                   /\ reqs[i].arg = d.id
                   /\ ~reqs[1].err
        /\ buildSdkDatatableSchema(dEntry).err =>
              reqs = <<>> /\ (pc = "idle" => outcome = "error")
        /\ (Len(reqs) > 0 /\ reqs[1].err) =>
              Len(reqs) = 1 /\ pc = "idle" /\ outcome = "error"
        /\ handler = "update" => d.id = dEntry.id
        /\ handler = "create" =>
              d.id = IF /\ Len(reqs) > 0 /\ ~reqs[1].err
                        /\ reqs[1].reply # None /\ reqs[1].reply[1].Id # None
                     THEN reqs[1].reply[1].Id[1]
                     ELSE ""

C7_Witness ==
    /\ handler = "create" /\ pc = "idle" /\ outcome = "ok"
    /\ Len(reqs) = 3
    /\ reqs[1].method = "POST" /\ reqs[1].reply[1].Id = Some("dt2")
    /\ reqs[2].status = 404 /\ ~reqs[3].err
    /\ d.id = "dt2"

====
